---- MODULE Spec2Model ----
(***************************************************************************)
(* The solar-system backdrop of src/main.js: one immediately invoked       *)
(* function (the startup), and the three callbacks it leaves behind: the   *)
(* animation frame callback `animate`, the listener of the                 *)
(* prefers-reduced-motion media query, and the listener of window resize.  *)
(*                                                                         *)
(* Units.  Lengths are in thousandths of a scene unit, since Math.cos and  *)
(* Math.sin are modelled as a table of values rounded to three decimals    *)
(* (the rounding stands for the rounding of IEEE doubles).  Angles are in  *)
(* steps of 1/Turn of a full turn.  Speeds are in thousandths (0.018 is    *)
(* 18).  One tick of time is the time in which a planet of speed 0.001     *)
(* advances one angle step, so that                                        *)
(*   timeMs * speed * 0.5e-3 + phase   is   time * speedK + phase          *)
(* in angle steps.  Pixel ratios are in hundredths (1.5 is 150); a falsy   *)
(* devicePixelRatio (undefined, 0) is 0.  sun.rotation.y is counted in     *)
(* increments of 0.002 rad.                                                *)
(***************************************************************************)
EXTENDS Integers, Sequences, FiniteSets, TLC

\* ------------------------------------------------------------------ bounds
MaxEvents == 4      \* events dispatched after startup
MaxTime == 2        \* largest reading of performance.now(), in ticks
MaxSeed == 2        \* outcomes of the eight Math.random() calls

\* window.innerWidth and innerHeight, and window.devicePixelRatio
Sizes == { << 800, 600 >>, << 600, 800 >> }
Dprs == {0, 150, 300}

\* --------------------------------------------------------------- constants
MaxPixelRatio == 200
FallbackMessage == "3D background isn't available on this device."
HostText == "host page text"

planetData ==
  << [name |-> "Mercury", orbitRadius |->  9, size |->  7, speed |-> 18, hasRing |-> FALSE],
     [name |-> "Venus",   orbitRadius |-> 12, size |-> 11, speed |-> 14, hasRing |-> FALSE],
     [name |-> "Earth",   orbitRadius |-> 16, size |-> 12, speed |-> 12, hasRing |-> FALSE],
     [name |-> "Mars",    orbitRadius |-> 20, size |-> 10, speed |-> 10, hasRing |-> FALSE],
     [name |-> "Jupiter", orbitRadius |-> 26, size |-> 25, speed |->  8, hasRing |-> FALSE],
     [name |-> "Saturn",  orbitRadius |-> 33, size |-> 22, speed |->  7, hasRing |-> TRUE],
     [name |-> "Uranus",  orbitRadius |-> 39, size |-> 17, speed |->  6, hasRing |-> TRUE],
     [name |-> "Neptune", orbitRadius |-> 45, size |-> 17, speed |->  5, hasRing |-> FALSE] >>

\* Math.cos at the angle steps of one turn, rounded to three decimals.
CosTable ==
  << 1000, 966, 866, 707, 500, 259, 0, -259, -500, -707, -866, -966,
     -1000, -966, -866, -707, -500, -259, 0, 259, 500, 707, 866, 966 >>

Turn == Len(CosTable)

\* the table's unit: cos(0) = 1
Scale == CosTable[1]

NumPlanets == Len(planetData)

MathCos(a) == CosTable[(a % Turn) + 1]

\* sin(a) = cos(a - quarter turn)
MathSin(a) == CosTable[((a + 3 * (Turn \div 4)) % Turn) + 1]

\* Math.random() * Math.PI * 2, once per planet: the seed stands for the
\* generator's state, the phases are in angle steps.
RandomPhase(seed, i) == (seed * i) % Turn

\* ------------------------------------------------------------------- state
VARIABLES
  pc,               \* "load" before the script runs, then "absent", "fallback" or "live"
  canvas,           \* document.getElementById('solar3d') found an element
  fallbackEl,       \* document.getElementById('webgl-fallback') found an element
  canvasDisplay,    \* canvas.style.display
  fallbackHidden,   \* fallbackEl.hidden
  fallbackText,     \* fallbackEl.textContent
  acquired,         \* what each canvas.getContext call made so far did
  mediaMatches,     \* motionMedia.matches, the preference as the browser has it
  innerWidth, innerHeight, devicePixelRatio,   \* window
  now,              \* last reading of performance.now()
  app,              \* the closure's objects and variables (see NoApp)
  events,           \* the number of events dispatched since startup
  lastEvent,        \* the kind of the last event dispatched
  lastReduced       \* app.reduceMotion before the last event

vars == << pc, canvas, fallbackEl, canvasDisplay, fallbackHidden, fallbackText,
           acquired, mediaMatches, innerWidth, innerHeight, devicePixelRatio,
           now, app, events, lastEvent, lastReduced >>

Origin == [x |-> 0, y |-> 0, z |-> 0]

\* The closure before anything is constructed.
NoApp ==
  [ built        |-> FALSE,    \* renderer, scene, camera, sun, planets exist
    planets      |-> << >>,    \* the runtime entries {orbitRadius, speed, phase}
    positions    |-> << >>,    \* p.mesh.position of each entry
    sunRot       |-> 0,        \* sun.rotation.y
    pixelRatio   |-> 0,        \* renderer.setPixelRatio
    size         |-> << 0, 0 >>,       \* renderer.setSize
    aspect       |-> << 0, 1 >>,       \* camera.aspect, a fraction
    reduceMotion |-> FALSE,
    rafId        |-> 0,
    listeners    |-> {},       \* addEventListener calls made
    pending      |-> {},       \* the browser's list of animation frame callbacks
    nextId       |-> 1,        \* the browser's animation frame callback identifier
    cancelled    |-> {},       \* ids handed to cancelAnimationFrame while pending
    executed     |-> {},       \* ids whose callback has run
    draws        |-> 0,        \* renderer.render calls
    updates      |-> 0,        \* updatePositions calls
    lastTime     |-> -1,       \* the argument of the latest updatePositions call
    ops          |-> << >> ]   \* what the last step did, in order

RECURSIVE Gcd(_, _)
Gcd(a, b) == IF b = 0 THEN a ELSE Gcd(b, a % b)

\* a / b of two positive integers, as a fraction in lowest terms
Divide(a, b) == << a \div Gcd(a, b), b \div Gcd(a, b) >>

Min(a, b) == IF a <= b THEN a ELSE b

\* ------------------------------------------------- the functions of main.js

\* isWebGLAvailable that takes every answer that is not an exception,
\* null too, for a context
isWebGLAvailable_nullIsContext(gl1, gl2) ==
  gl1 # "throw" /\ (gl1 = "context" \/ gl2 # "throw")

\* lines 19-26; gl1 and gl2 are what getContext('webgl') and
\* getContext('experimental-webgl') do: "context", "null" or "throw"
isWebGLAvailable(gl1, gl2) ==
  IF gl1 = "throw" THEN FALSE
  ELSE IF gl1 = "context" THEN TRUE
  ELSE gl2 = "context"

\* the getContext calls isWebGLAvailable makes (line 21): || evaluates its
\* right side only when the left one is falsy
ContextCalls(gl1, gl2) == IF gl1 = "null" THEN << gl1, gl2 >> ELSE << gl1 >>

\* lines 13-17
showFallback(message) ==
  IF ~fallbackEl
  THEN UNCHANGED << fallbackHidden, fallbackText >>
  ELSE /\ fallbackText' = IF message # "" THEN message ELSE fallbackText
       /\ fallbackHidden' = FALSE

\* applySize without the cap on the pixel ratio
applySize_noCap(s, w, h, d) ==
  [s EXCEPT !.pixelRatio = IF d = 0 THEN 100 ELSE d,
            !.size = << w, h >>,
            !.aspect = Divide(w, h)]

\* lines 40-46
applySize(s, w, h, d) ==
  [s EXCEPT !.pixelRatio = Min(IF d = 0 THEN 100 ELSE d, MaxPixelRatio),
            !.size = << w, h >>,
            !.aspect = Divide(w, h)]

\* lines 104-129: the runtime entries, and the meshes at their default position
addPlanets(s, seed) ==
  [s EXCEPT !.planets = [i \in 1..NumPlanets |->
                          [orbitRadius |-> planetData[i].orbitRadius,
                           speed |-> planetData[i].speed,
                           phase |-> RandomPhase(seed, i)]],
            !.positions = [i \in 1..NumPlanets |-> Origin]]

\* updatePositions that takes the cosine for z as well
updatePositions_cosForZ(s, timeMs) ==
  [s EXCEPT !.positions = [i \in DOMAIN s.planets |->
                            LET p == s.planets[i]
                                t == timeMs * p.speed + p.phase
                            IN  [s.positions[i] EXCEPT !.x = MathCos(t) * p.orbitRadius,
                                                       !.z = MathCos(t) * p.orbitRadius]],
            !.sunRot = @ + 1,
            !.updates = @ + 1,
            !.lastTime = timeMs,
            !.ops = Append(@, "update")]

\* updatePositions that turns the sun by the time passed
updatePositions_sunByTime(s, timeMs) ==
  [s EXCEPT !.positions = [i \in DOMAIN s.planets |->
                            LET p == s.planets[i]
                                t == timeMs * p.speed + p.phase
                            IN  [s.positions[i] EXCEPT !.x = MathCos(t) * p.orbitRadius,
                                                       !.z = MathSin(t) * p.orbitRadius]],
            !.sunRot = @ + timeMs,
            !.updates = @ + 1,
            !.lastTime = timeMs,
            !.ops = Append(@, "update")]

\* updatePositions with the sine for x and the cosine for z
updatePositions_sinForX(s, timeMs) ==
  [s EXCEPT !.positions = [i \in DOMAIN s.planets |->
                            LET p == s.planets[i]
                                t == timeMs * p.speed + p.phase
                            IN  [s.positions[i] EXCEPT !.x = MathSin(t) * p.orbitRadius,
                                                       !.z = MathCos(t) * p.orbitRadius]],
            !.sunRot = @ + 1,
            !.updates = @ + 1,
            !.lastTime = timeMs,
            !.ops = Append(@, "update")]

\* updatePositions that keeps the angle it computed as the planet's phase
updatePositions_storesAngle(s, timeMs) ==
  [s EXCEPT !.positions = [i \in DOMAIN s.planets |->
                            LET p == s.planets[i]
                                t == timeMs * p.speed + p.phase
                            IN  [s.positions[i] EXCEPT !.x = MathCos(t) * p.orbitRadius,
                                                       !.z = MathSin(t) * p.orbitRadius]],
            !.planets = [i \in DOMAIN s.planets |->
                          [s.planets[i] EXCEPT !.phase =
                             (timeMs * s.planets[i].speed + s.planets[i].phase) % Turn]],
            !.sunRot = @ + 1,
            !.updates = @ + 1,
            !.lastTime = timeMs,
            !.ops = Append(@, "update")]

\* updatePositions that advances each planet from where it is by the time
\* since the last update
updatePositions_incremental(s, timeMs) ==
  [s EXCEPT !.positions = [i \in DOMAIN s.planets |->
                            LET p == s.planets[i]
                                t == (timeMs + s.updates) * p.speed + p.phase
                            IN  [s.positions[i] EXCEPT !.x = MathCos(t) * p.orbitRadius,
                                                       !.z = MathSin(t) * p.orbitRadius]],
            !.sunRot = @ + 1,
            !.updates = @ + 1,
            !.lastTime = timeMs,
            !.ops = Append(@, "update")]

\* lines 156-163
updatePositions(s, timeMs) ==
  [s EXCEPT !.positions = [i \in DOMAIN s.planets |->
                            LET p == s.planets[i]
                                t == timeMs * p.speed + p.phase
                            IN  [s.positions[i] EXCEPT !.x = MathCos(t) * p.orbitRadius,
                                                       !.z = MathSin(t) * p.orbitRadius]],
            !.sunRot = @ + 1,
            !.updates = @ + 1,
            !.lastTime = timeMs,
            !.ops = Append(@, "update")]

\* lines 165-167
renderFrame(s) ==
  [s EXCEPT !.draws = @ + 1, !.ops = Append(@, "draw")]

\* the browser: a new callback in the list of animation frame callbacks; the
\* identifier returned is s.nextId
requestAnimationFrame(s) ==
  [s EXCEPT !.pending = @ \cup {s.nextId},
            !.nextId = @ + 1,
            !.ops = Append(@, "request")]

\* the browser: the callback of that identifier leaves the list
cancelAnimationFrame(s, id) ==
  [s EXCEPT !.pending = @ \ {id},
            !.cancelled = @ \cup ({id} \cap s.pending),
            !.ops = Append(@, "cancel")]

\* animate that does not request the next callback
animate_noRequest(s, t) ==
  IF s.reduceMotion THEN s
  ELSE renderFrame(updatePositions(s, t))

\* animate that draws before it updates the positions
animate_drawsFirst(s, t) ==
  IF s.reduceMotion THEN s
  ELSE LET s1 == [requestAnimationFrame(s) EXCEPT !.rafId = s.nextId]
       IN  updatePositions(renderFrame(s1), t)

\* lines 169-174
animate(s, t) ==
  IF s.reduceMotion THEN s
  ELSE LET s1 == [requestAnimationFrame(s) EXCEPT !.rafId = s.nextId]
       IN  renderFrame(updatePositions(s1, t))

\* startAnimation without its test of the handle
startAnimation_noHandleTest(s) ==
  IF ~s.reduceMotion
  THEN [requestAnimationFrame(s) EXCEPT !.rafId = s.nextId]
  ELSE s

\* lines 176-178
startAnimation(s) ==
  IF s.rafId = 0 /\ ~s.reduceMotion
  THEN [requestAnimationFrame(s) EXCEPT !.rafId = s.nextId]
  ELSE s

\* stopAnimation that clears the handle and leaves the callback scheduled
stopAnimation_noCancel(s) ==
  renderFrame([s EXCEPT !.rafId = 0])

\* stopAnimation that cancels and leaves the handle as it is
stopAnimation_keepsHandle(s) ==
  LET s1 == IF s.rafId # 0 THEN cancelAnimationFrame(s, s.rafId) ELSE s
  IN  renderFrame(s1)

\* stopAnimation without its final draw
stopAnimation_noDraw(s) ==
  LET s1 == IF s.rafId # 0 THEN cancelAnimationFrame(s, s.rafId) ELSE s
  IN  [s1 EXCEPT !.rafId = 0]

\* stopAnimation that updates the positions, for time 0, before its draw
stopAnimation_updatesFirst(s) ==
  LET s1 == IF s.rafId # 0 THEN cancelAnimationFrame(s, s.rafId) ELSE s
  IN  renderFrame(updatePositions([s1 EXCEPT !.rafId = 0], 0))

\* lines 180-184
stopAnimation(s) ==
  LET s1 == IF s.rafId # 0 THEN cancelAnimationFrame(s, s.rafId) ELSE s
  IN  renderFrame([s1 EXCEPT !.rafId = 0])

\* lines 193-197
onMotionChange(s, matches) ==
  LET s1 == [s EXCEPT !.reduceMotion = matches]
  IN  IF s1.reduceMotion THEN stopAnimation(s1) ELSE startAnimation(s1)

\* the resize listener without its test of reduceMotion
onResize_alwaysDraws(s, w, h, d) ==
  renderFrame(applySize(s, w, h, d))

\* lines 200-203
onResize(s, w, h, d) ==
  LET s1 == applySize(s, w, h, d)
  IN  IF s1.reduceMotion THEN renderFrame(s1) ELSE s1

\* the startup with the branches of lines 186-191 exchanged
buildAndStart_branchesExchanged(w, h, d, seed, matches) ==
  LET s0 == [NoApp EXCEPT !.built = TRUE, !.aspect = Divide(w, h)]
      s1 == applySize(s0, w, h, d)
      s2 == addPlanets(s1, seed)
      s3 == [s2 EXCEPT !.reduceMotion = matches, !.rafId = 0]
      s4 == IF ~s3.reduceMotion
            THEN renderFrame(updatePositions(s3, 0))
            ELSE startAnimation(s3)
  IN  [s4 EXCEPT !.listeners = {"change", "resize"}]

\* lines 35-52 and 147-197, what the script does once WebGL is available
buildAndStart(w, h, d, seed, matches) ==
  LET s0 == [NoApp EXCEPT !.built = TRUE, !.aspect = Divide(w, h)]
      s1 == applySize(s0, w, h, d)
      s2 == addPlanets(s1, seed)
      s3 == [s2 EXCEPT !.reduceMotion = matches, !.rafId = 0]
      s4 == IF s3.reduceMotion
            THEN renderFrame(updatePositions(s3, 0))
            ELSE startAnimation(s3)
  IN  [s4 EXCEPT !.listeners = {"change", "resize"}]

\* ----------------------------------------------------------------- actions
GlOutcomes == {"context", "null", "throw"}

Init ==
  /\ pc = "load"
  /\ canvas \in BOOLEAN
  /\ fallbackEl \in BOOLEAN
  /\ canvasDisplay = ""
  /\ fallbackHidden = TRUE
  /\ fallbackText = HostText
  /\ acquired = << >>
  /\ mediaMatches \in BOOLEAN
  /\ \E wh \in Sizes : innerWidth = wh[1] /\ innerHeight = wh[2]
  /\ devicePixelRatio \in Dprs
  /\ now = 0
  /\ app = NoApp
  /\ events = 0
  /\ lastEvent = "none"
  /\ lastReduced = FALSE

\* the script without the test of line 11
noCanvas_never == FALSE

\* line 11: if (!canvas) return
noCanvas == ~canvas

\* lines 8-204: the script runs, once
Startup ==
  /\ pc = "load"
  /\ \E gl1 \in GlOutcomes, gl2 \in GlOutcomes, seed \in 0..MaxSeed :
       IF noCanvas
       THEN /\ pc' = "absent"
            /\ UNCHANGED << canvasDisplay, fallbackHidden, fallbackText, acquired, app >>
       ELSE IF ~isWebGLAvailable(gl1, gl2)
       THEN /\ pc' = "fallback"
            /\ acquired' = ContextCalls(gl1, gl2)
            /\ canvasDisplay' = "none"
            /\ showFallback(FallbackMessage)
            /\ UNCHANGED app
       ELSE /\ pc' = "live"
            /\ acquired' = ContextCalls(gl1, gl2)
            /\ app' = buildAndStart(innerWidth, innerHeight, devicePixelRatio, seed,
                                    mediaMatches)
            /\ UNCHANGED << canvasDisplay, fallbackHidden, fallbackText >>
  /\ lastEvent' = "startup"
  /\ UNCHANGED << canvas, fallbackEl, mediaMatches, innerWidth, innerHeight,
                  devicePixelRatio, now, events, lastReduced >>

\* the browser runs one callback of its list: it leaves the list, then runs
Frame ==
  /\ pc = "live"
  /\ events < MaxEvents
  /\ \E id \in app.pending, t \in now..MaxTime :
       /\ now' = t
       /\ app' = animate([app EXCEPT !.pending = @ \ {id},
                                     !.executed = @ \cup {id},
                                     !.ops = << >>], t)
  /\ events' = events + 1
  /\ lastEvent' = "frame"
  /\ lastReduced' = app.reduceMotion
  /\ UNCHANGED << pc, canvas, fallbackEl, canvasDisplay, fallbackHidden, fallbackText,
                  acquired, mediaMatches, innerWidth, innerHeight, devicePixelRatio >>

\* a change event of the media query reaches the listener of lines 193-197
MotionChange ==
  /\ pc # "load"
  /\ "change" \in app.listeners
  /\ events < MaxEvents
  /\ \E matches \in BOOLEAN :
       /\ mediaMatches' = matches
       /\ app' = onMotionChange([app EXCEPT !.ops = << >>], matches)
       /\ lastEvent' = IF matches THEN "pause" ELSE "resume"
  /\ events' = events + 1
  /\ lastReduced' = app.reduceMotion
  /\ UNCHANGED << pc, canvas, fallbackEl, canvasDisplay, fallbackHidden, fallbackText,
                  acquired, innerWidth, innerHeight, devicePixelRatio, now >>

\* the window takes another size or moves to another screen
ViewportChange ==
  /\ \E wh \in Sizes, d \in Dprs :
       /\ << wh[1], wh[2], d >> # << innerWidth, innerHeight, devicePixelRatio >>
       /\ innerWidth' = wh[1]
       /\ innerHeight' = wh[2]
       /\ devicePixelRatio' = d
  /\ UNCHANGED << pc, canvas, fallbackEl, canvasDisplay, fallbackHidden, fallbackText,
                  acquired, mediaMatches, now, app, events, lastEvent, lastReduced >>

\* a resize event of the window reaches the listener of lines 200-203
Resize ==
  /\ pc # "load"
  /\ "resize" \in app.listeners
  /\ events < MaxEvents
  /\ app' = onResize([app EXCEPT !.ops = << >>], innerWidth, innerHeight, devicePixelRatio)
  /\ events' = events + 1
  /\ lastEvent' = "resize"
  /\ lastReduced' = app.reduceMotion
  /\ UNCHANGED << pc, canvas, fallbackEl, canvasDisplay, fallbackHidden, fallbackText,
                  acquired, mediaMatches, innerWidth, innerHeight, devicePixelRatio, now >>

\* a change or resize event is dispatched and the script has registered no
\* listener for it (lines 11 and 31 returned first): nothing of the script runs
Unheard ==
  /\ pc # "load"
  /\ app.listeners = {}
  /\ events < MaxEvents
  /\ events' = events + 1
  /\ lastEvent' = "unheard"
  /\ UNCHANGED << pc, canvas, fallbackEl, canvasDisplay, fallbackHidden, fallbackText,
                  acquired, mediaMatches, innerWidth, innerHeight, devicePixelRatio,
                  now, app, lastReduced >>

Next == Startup \/ Frame \/ MotionChange \/ ViewportChange \/ Resize \/ Unheard

Spec == Init /\ [][Next]_vars

\* ------------------------------------------- the loop, run without an end
\* Spec stops after MaxEvents events.  To follow the loop for as long as it
\* runs, LiveSpec takes the same handlers and keeps of the history only what
\* they can tell apart: the counters (draws, updates, sun increments, events)
\* are kept modulo 2, the records of cancelled and executed callbacks are
\* dropped, and the callback identifiers, which the script only compares
\* with 0 and hands back to cancelAnimationFrame, are renumbered from 1 in
\* their order.  The page is one with the canvas and the panel, and its
\* window keeps the size it has at load.

\* the place of identifier id among the pending ones
Rank(s, id) == Cardinality({j \in s.pending : j <= id})

\* the handle names a callback that is no longer pending
Stale(s) == s.rafId # 0 /\ s.rafId \notin s.pending

Forget(s) ==
  [s EXCEPT !.draws = @ % 2,
            !.updates = @ % 2,
            !.sunRot = @ % 2,
            !.cancelled = {},
            !.executed = {},
            !.pending = 1..Cardinality(s.pending),
            !.rafId = IF s.rafId = 0 THEN 0
                      ELSE IF Stale(s) THEN Cardinality(s.pending) + 1
                      ELSE Rank(s, s.rafId),
            !.nextId = Cardinality(s.pending) + (IF Stale(s) THEN 2 ELSE 1)]

\* Frame, without the bound
LiveFrame ==
  /\ pc = "live"
  /\ \E id \in app.pending, t \in now..MaxTime :
       /\ now' = t
       /\ app' = Forget(animate([app EXCEPT !.pending = @ \ {id},
                                            !.ops = << >>], t))
  /\ events' = (events + 1) % 2
  /\ lastEvent' = "frame"
  /\ lastReduced' = app.reduceMotion
  /\ UNCHANGED << pc, canvas, fallbackEl, canvasDisplay, fallbackHidden, fallbackText,
                  acquired, mediaMatches, innerWidth, innerHeight, devicePixelRatio >>

\* MotionChange, without the bound
LiveMotionChange ==
  /\ pc # "load"
  /\ "change" \in app.listeners
  /\ \E matches \in BOOLEAN :
       /\ mediaMatches' = matches
       /\ app' = Forget(onMotionChange([app EXCEPT !.ops = << >>], matches))
       /\ lastEvent' = IF matches THEN "pause" ELSE "resume"
  /\ events' = (events + 1) % 2
  /\ lastReduced' = app.reduceMotion
  /\ UNCHANGED << pc, canvas, fallbackEl, canvasDisplay, fallbackHidden, fallbackText,
                  acquired, innerWidth, innerHeight, devicePixelRatio, now >>

\* Resize, without the bound
LiveResize ==
  /\ pc # "load"
  /\ "resize" \in app.listeners
  /\ app' = Forget(onResize([app EXCEPT !.ops = << >>],
                            innerWidth, innerHeight, devicePixelRatio))
  /\ events' = (events + 1) % 2
  /\ lastEvent' = "resize"
  /\ lastReduced' = app.reduceMotion
  /\ UNCHANGED << pc, canvas, fallbackEl, canvasDisplay, fallbackHidden, fallbackText,
                  acquired, mediaMatches, innerWidth, innerHeight, devicePixelRatio, now >>

LiveInit ==
  /\ Init
  /\ canvas /\ fallbackEl
  /\ << innerWidth, innerHeight >> = << 800, 600 >>
  /\ devicePixelRatio = 300

LiveNext == Startup \/ LiveFrame \/ LiveMotionChange \/ LiveResize

\* the browser runs a pending frame callback sooner or later
LiveSpec == LiveInit /\ [][LiveNext]_vars /\ WF_vars(LiveFrame)

\* ------------------------------------------------------------------ claims

\* the events of kind `kind`: the steps that dispatch one
EventStep(kind) == events' = events + 1 /\ lastEvent' = kind

\* how many times the last step did `op`
Count(ops, op) == Cardinality({i \in DOMAIN ops : ops[i] = op})

\* the driver's two states, once the script has started it
Running == pc = "live" /\ ~app.reduceMotion
Paused == pc = "live" /\ app.reduceMotion

\* C1: in every reachable state at most one animation frame callback is
\* pending (requested, and neither run nor cancelled).
C1_AtMostOnePending == Cardinality(app.pending) <= 1

\* C1's case: a callback is pending after callbacks have been both cancelled
\* (a pause) and run (a frame), and the driver was resumed.
C1_Witness ==
  /\ Cardinality(app.pending) = 1
  /\ app.cancelled # {}
  /\ app.executed # {}
  /\ lastEvent = "resume"

C3_ResumeIdempotent ==
  [][ EventStep("resume")
        => /\ Cardinality(app'.pending) = 1
           /\ app'.pending = {app'.rafId}
           /\ (app.rafId # 0 /\ ~app.reduceMotion)
                 => app' = [app EXCEPT !.ops = << >>] ]_vars

\* C3's case: three events since a startup in RUNNING, a pause and two
\* resumes with no frame in between; one callback is pending.
C3_Witness ==
  /\ events = 3
  /\ lastEvent = "resume" /\ ~lastReduced
  /\ app.cancelled # {}
  /\ app.executed = {}
  /\ app.draws = 1
  /\ Cardinality(app.pending) = 1


\* context acquisition failed: the last getContext call made did not return a
\* context (it returned null or threw)
AcquisitionFailed ==
  acquired # << >> /\ acquired[Len(acquired)] # "context"

\* C4: when the canvas exists and context acquisition returns nothing or
\* throws, startup hides the canvas and shows the fallback panel (where the
\* page has one) with the unavailability message, and ends there: nothing is
\* constructed, no listener registered, no draw issued and no callback
\* requested, then or after any later event.
C4_FallbackIsTerminal ==
  /\ (canvas /\ AcquisitionFailed) => pc = "fallback"
  /\ pc = "fallback"
       => /\ canvas /\ AcquisitionFailed
          /\ canvasDisplay = "none"
          /\ fallbackEl => (~fallbackHidden /\ fallbackText = FallbackMessage)
          /\ app = NoApp
          /\ ~app.built /\ app.listeners = {} /\ app.draws = 0
          /\ app.pending = {} /\ app.nextId = 1

\* C4's case: 'webgl' returned null and 'experimental-webgl' threw, the panel
\* is shown, and two events have been dispatched since.
C4_Witness ==
  /\ pc = "fallback"
  /\ acquired = << "null", "throw" >>
  /\ fallbackEl /\ ~fallbackHidden /\ fallbackText = FallbackMessage
  /\ events >= 2

\* C5: a change event with matches = true handled in RUNNING cancels the
\* pending callback, clears the handle and issues exactly one draw, all in
\* that step; no callback is pending after it, and no cancelled callback is
\* ever run.
C5_PauseCancelsAndDrawsOnce ==
  /\ [][ (Running /\ EventStep("pause"))
           => /\ app.rafId \in app.pending
              /\ app'.ops = << "cancel", "draw" >>
              /\ app'.cancelled = app.cancelled \cup {app.rafId}
              /\ app'.rafId = 0
              /\ app'.pending = {}
              /\ app'.draws = app.draws + 1
              /\ app'.reduceMotion ]_vars
  /\ [](app.cancelled \cap app.executed = {})

\* C5's case: the driver was paused in RUNNING by the last event, after a
\* frame callback had run.
C5_Witness ==
  /\ lastEvent = "pause" /\ ~lastReduced
  /\ app.ops = << "cancel", "draw" >>
  /\ app.executed # {}
  /\ app.pending = {}

\* the positions updatePositions leaves for time t (x and z; y as it is)
Evaluated(t) ==
  [i \in 1..NumPlanets |->
     [x |-> MathCos(t * app.planets[i].speed + app.planets[i].phase)
              * app.planets[i].orbitRadius,
      y |-> app.positions[i].y,
      z |-> MathSin(t * app.planets[i].speed + app.planets[i].phase)
              * app.planets[i].orbitRadius]]

\* C6: whenever the driver is PAUSED at least one draw has been issued, and
\* every draw was preceded by a position update, so that the frame drawn
\* shows positions the position update produced.
C6_PausedFrameIsEvaluated ==
  /\ Paused => app.draws >= 1
  /\ (pc = "live" /\ app.draws >= 1)
       => /\ app.updates >= 1
          /\ app.positions = Evaluated(app.lastTime)

\* C7: the resize listener issues exactly one draw when the driver is PAUSED
\* and none when it is RUNNING; either way it leaves the handle, the pending
\* callbacks, the motion-preference flag, the planet positions and the sun
\* rotation as they were.
C7_ResizeEffect ==
  [][ (pc = "live" /\ EventStep("resize"))
        => /\ app'.ops = IF app.reduceMotion THEN << "draw" >> ELSE << >>
           /\ app'.draws = app.draws + (IF app.reduceMotion THEN 1 ELSE 0)
           /\ app'.rafId = app.rafId
           /\ app'.pending = app.pending
           /\ app'.reduceMotion = app.reduceMotion
           /\ app'.positions = app.positions
           /\ app'.sunRot = app.sunRot
           /\ app'.updates = app.updates ]_vars

\* C7's case: the last event was a resize handled in PAUSED, and it drew.
C7_Witness ==
  /\ pc = "live"
  /\ lastEvent = "resize" /\ lastReduced
  /\ app.ops = << "draw" >>
  /\ app.draws >= 2

\* C8: after startup and after every resize event the pixel ratio applied is
\* min(devicePixelRatio, 2), a missing or zero devicePixelRatio counting as
\* 1, so it never exceeds 2, and the camera's aspect is width / height of the
\* window at that moment.
C8_SizeApplied ==
  [][ (pc' = "live" /\ (pc = "load" \/ EventStep("resize")))
        => /\ app'.pixelRatio <= MaxPixelRatio
           /\ app'.pixelRatio =
                 IF devicePixelRatio' = 0 THEN 100
                 ELSE IF devicePixelRatio' > MaxPixelRatio THEN MaxPixelRatio
                 ELSE devicePixelRatio'
           /\ app'.aspect[1] * innerHeight' = app'.aspect[2] * innerWidth'
           /\ app'.size = << innerWidth', innerHeight' >> ]_vars

\* C8's case: the resize listener has run with devicePixelRatio = 3 in a
\* window of 800 x 600: pixel ratio 2, aspect 800/600 = 4/3.
C8_Witness ==
  /\ lastEvent = "resize"
  /\ devicePixelRatio = 300 /\ innerWidth = 800 /\ innerHeight = 600
  /\ app.pixelRatio = 200
  /\ app.aspect = << 4, 3 >>
  /\ app.size = << 800, 600 >>

\* C9: the driver starts in the state the motion preference read at startup
\* gives: with reduced motion, startup makes exactly one position update, for
\* time 0, then exactly one draw, and requests no callback (PAUSED);
\* otherwise it requests exactly one callback and draws nothing (RUNNING).
C9_InitialState ==
  (pc = "live" /\ lastEvent = "startup")
    => /\ app.reduceMotion = mediaMatches
       /\ IF mediaMatches
          THEN /\ app.ops = << "update", "draw" >>
               /\ app.lastTime = 0
               /\ app.updates = 1 /\ app.draws = 1
               /\ app.pending = {} /\ app.rafId = 0
          ELSE /\ app.ops = << "request" >>
               /\ app.updates = 0 /\ app.draws = 0
               /\ Cardinality(app.pending) = 1 /\ app.pending = {app.rafId}

\* C9's case: the script has just started with reduced motion and drew the
\* frame of time 0, the planets at their phases.
C9_Witness ==
  /\ pc = "live" /\ lastEvent = "startup"
  /\ mediaMatches
  /\ app.draws = 1
  /\ app.positions[1].x # app.planets[1].orbitRadius * Scale

Abs(n) == IF n < 0 THEN -n ELSE n

\* the squared distance from the origin, in the horizontal plane, of planet i
PlanarSquare(i) ==
  app.positions[i].x * app.positions[i].x + app.positions[i].z * app.positions[i].z

\* the square of planet i's orbit radius, in the unit of the positions
RadiusSquare(i) ==
  (app.planets[i].orbitRadius * Scale) * (app.planets[i].orbitRadius * Scale)

\* C10 as stated: after a position update every planet is at distance
\* exactly orbitRadius from the origin in the horizontal plane, with y = 0.
C10_ExactlyOnOrbit ==
  (pc = "live" /\ app.updates >= 1)
    => \A i \in 1..NumPlanets :
         app.positions[i].y = 0 /\ PlanarSquare(i) = RadiusSquare(i)

\* C10 as amended: after a position update every planet is at distance
\* orbitRadius from the origin in the horizontal plane up to the rounding of
\* the cosine and the sine (each off by at most half a unit of their last
\* digit, so x^2 + z^2 differs from orbitRadius^2 by less than
\* orbitRadius^2 * 2 / Scale), and y is 0 in every state: nothing writes it.
C10_OnOrbitWithinRounding ==
  pc = "live"
    => \A i \in 1..NumPlanets :
         /\ app.positions[i].y = 0
         /\ app.updates >= 1
              => Abs(PlanarSquare(i) - RadiusSquare(i))
                   <= 2 * Scale * app.planets[i].orbitRadius * app.planets[i].orbitRadius

\* C10's case: a frame callback has updated the positions for a time after
\* 0, and Mercury's cosine and sine are rounded values.
C10_Witness ==
  /\ pc = "live" /\ lastEvent = "frame"
  /\ app.lastTime >= 1
  /\ PlanarSquare(1) # RadiusSquare(1)

\* C11: when the page has no canvas element the script does nothing: the
\* fallback panel stays hidden with the text the page gave it, no context is
\* asked for, nothing is built, no listener is registered, no draw is issued
\* and no callback requested, then or after any later event.
C11_AbsentCanvasIsNoOp ==
  /\ (~canvas /\ pc # "load") => pc = "absent"
  /\ pc = "absent"
       => /\ ~canvas
          /\ canvasDisplay = ""
          /\ fallbackHidden /\ fallbackText = HostText
          /\ acquired = << >>
          /\ app = NoApp
          /\ ~app.built /\ app.listeners = {} /\ app.draws = 0
          /\ app.pending = {} /\ app.nextId = 1

\* C11's case: the script ran in a page with the panel and without the
\* canvas, and two events have been dispatched since.
C11_Witness ==
  /\ pc = "absent"
  /\ fallbackEl /\ fallbackHidden
  /\ lastEvent = "unheard"
  /\ events >= 2

\* C12: a frame callback that runs in RUNNING does, in this order and only
\* this, one request of the next callback, one position update and one draw:
\* the update comes before the draw, in the same step.
C12_FrameOrder ==
  [][ (Running /\ EventStep("frame"))
        => /\ app'.ops = << "request", "update", "draw" >>
           /\ app'.nextId = app.nextId + 1
           /\ app'.updates = app.updates + 1
           /\ app'.draws = app.draws + 1
           /\ app'.lastTime = now'
           /\ app'.positions = [i \in 1..NumPlanets |->
                 [x |-> MathCos(now' * app.planets[i].speed + app.planets[i].phase)
                          * app.planets[i].orbitRadius,
                  y |-> 0,
                  z |-> MathSin(now' * app.planets[i].speed + app.planets[i].phase)
                          * app.planets[i].orbitRadius]] ]_vars

\* C12's case: the last event was a frame callback run in RUNNING, the second
\* to run, for a time after 0.
C12_Witness ==
  /\ lastEvent = "frame" /\ ~lastReduced
  /\ app.ops = << "request", "update", "draw" >>
  /\ Cardinality(app.executed) = 2
  /\ app.lastTime >= 1

\* C14: while the driver is PAUSED the scene is frozen: every step that
\* leaves the driver PAUSED (the pause itself, a repeated pause, a resize)
\* makes no position update and leaves the planet positions and the sun's
\* rotation as they were, so what is drawn while PAUSED is what the last
\* update before the pause left.
C14_FrozenWhilePaused ==
  [][ (pc = "live" /\ app'.reduceMotion)
        => /\ app'.updates = app.updates
           /\ app'.lastTime = app.lastTime
           /\ app'.positions = app.positions
           /\ app'.sunRot = app.sunRot
           /\ events' # events => Count(app'.ops, "update") = 0 ]_vars

\* C14's case: a frame callback ran for a time after 0, the driver was then
\* paused, and the last event, in PAUSED, redrew the frame of that time.
C14_Witness ==
  /\ Paused /\ lastReduced
  /\ lastEvent \in {"pause", "resize"}
  /\ app.ops = << "draw" >>
  /\ app.executed # {}
  /\ app.lastTime >= 1
  /\ app.positions = Evaluated(app.lastTime)

\* C15: the sun's rotation is one increment per call of the position update,
\* whatever the time passed: in every state it is the number of updates made
\* (the one of startup under reduced motion included), and pause, resume and
\* resize leave it as it is.
C15_SunRotationPerCall ==
  /\ [](app.sunRot = app.updates)
  /\ [][ (EventStep("pause") \/ EventStep("resume") \/ EventStep("resize"))
           => app'.sunRot = app.sunRot ]_vars
  /\ [][ app'.updates = app.updates + 1 => app'.sunRot = app.sunRot + 1 ]_vars

\* C15's case: the update of startup under reduced motion, a resume, and a
\* frame for a time after 0: two updates, two increments.
C15_Witness ==
  /\ events = 2
  /\ lastEvent = "frame"
  /\ app.lastTime >= 1
  /\ app.updates = 2
  /\ app.sunRot = 2

\* C16: after a position update for time 0 each planet is at the angle of
\* its phase, and a planet of phase 0 is at (orbitRadius, 0, 0).
C16_AtPhaseAtTimeZero ==
  (pc = "live" /\ app.lastTime = 0)
    => \A i \in 1..NumPlanets :
         LET p == app.planets[i]
         IN  /\ app.positions[i] = [x |-> MathCos(p.phase) * p.orbitRadius,
                                    y |-> 0,
                                    z |-> MathSin(p.phase) * p.orbitRadius]
             /\ p.phase = 0
                  => app.positions[i] = [x |-> p.orbitRadius * Scale, y |-> 0, z |-> 0]

\* C16's case: the frame of time 0 with every phase 0: Mercury at (9, 0, 0).
C16_Witness ==
  /\ pc = "live"
  /\ app.lastTime = 0
  /\ app.planets[1].phase = 0
  /\ app.positions[1] = [x |-> 9000, y |-> 0, z |-> 0]

\* C17: the runtime entries are fixed at construction: eight of them, each
\* with the orbit radius and the speed of its descriptor, and no later step
\* (frame, pause, resume, resize) changes an entry's radius, speed or phase.
C17_EntriesFixed ==
  /\ [](pc = "live"
          => /\ Len(app.planets) = 8
             /\ \A i \in 1..8 :
                  /\ app.planets[i].orbitRadius = planetData[i].orbitRadius
                  /\ app.planets[i].speed = planetData[i].speed)
  /\ [][ pc = "live" => app'.planets = app.planets ]_vars

\* C17's case: frames, a pause and a resume have happened, and the planets
\* have phases that are not all the same.
C17_Witness ==
  /\ pc = "live"
  /\ app.executed # {} /\ app.cancelled # {} /\ app.pending # {}
  /\ app.planets[1].phase # app.planets[2].phase

\* C18: the planet positions depend on nothing but the time of the latest
\* position update and the planets' fixed radius, speed and phase: in every
\* state after an update they are the positions of that time, whatever
\* frames, pauses, resumes and resizes came before, so that two runs with
\* the same phases agree on the frame of the same time.
C18_PositionsFromTimeAlone ==
  (pc = "live" /\ app.updates >= 1)
    => app.positions =
         [i \in 1..NumPlanets |->
            LET p == app.planets[i]
                a == app.lastTime * p.speed + p.phase
            IN  [x |-> MathCos(a) * p.orbitRadius,
                 y |-> 0,
                 z |-> MathSin(a) * p.orbitRadius]]

\* C18's case: the latest of several updates was made after a pause, a
\* resume and a resize.
C18_Witness ==
  /\ pc = "live"
  /\ lastEvent = "frame"
  /\ app.updates >= 2
  /\ app.cancelled # {}
  /\ app.lastTime >= 1

\* C19: once the script is live, between events, the handle is non-zero
\* exactly when a callback is pending (the one it names), exactly when the
\* flag is false; so no frame callback runs while the flag is true and the
\* early return of animate is never taken.
C19_HandlePendingFlagAgree ==
  /\ [](pc = "live"
          => /\ (app.rafId # 0) <=> (app.pending # {})
             /\ (app.pending # {}) <=> ~app.reduceMotion
             /\ app.pending \subseteq {app.rafId})
  /\ [][ EventStep("frame") => (~app.reduceMotion /\ app'.ops # << >>) ]_vars

\* C19's case: a frame callback has just run after the driver had been
\* paused and resumed.
C19_Witness ==
  /\ Running
  /\ lastEvent = "frame"
  /\ app.cancelled # {}
  /\ app.rafId \in app.pending

\* an event of kind `kind` of LiveSpec
LiveStep(kind) == events' # events /\ lastEvent' = kind

\* C13: once started the loop does not end by itself.  Every frame callback
\* run in RUNNING draws and leaves a new callback pending, the one the handle
\* names; the only step after which no callback is pending any more is a
\* pause taken in RUNNING, and a resize leaves the pending callback and the
\* handle alone; so, the browser running pending callbacks sooner or later,
\* if from some point on the driver stays RUNNING then draws are issued again
\* and again for ever.
C13_LoopNeverEnds ==
  /\ [][ (Running /\ LiveStep("frame"))
           => /\ app'.pending # {}
              /\ app'.rafId \in app'.pending
              /\ app'.draws # app.draws ]_vars
  /\ [][ (pc = "live" /\ app.pending # {} /\ app'.pending = {})
           => (LiveStep("pause") /\ ~app.reduceMotion) ]_vars
  /\ [][ LiveStep("resize")
           => (app'.pending = app.pending /\ app'.rafId = app.rafId) ]_vars
  /\ (<>[]Running) => ([]<>(app.draws = 0) /\ []<>(app.draws = 1))

\* C13's case: the driver is RUNNING, the last event was a frame callback
\* for a time after 0, not the first to draw, and a callback is pending.
C13_Witness ==
  /\ Running
  /\ lastEvent = "frame" /\ ~lastReduced
  /\ app.lastTime >= 1
  /\ app.draws = 0
  /\ app.pending # {}

====
